---- MODULE Spec2Model ----
(***************************************************************************)
(* A model of tree_print/cli.py: the directory tree printer.               *)
(*                                                                         *)
(* Representation                                                          *)
(*   - a character is a one-character string, a name is a sequence of      *)
(*     characters, a path is a sequence of names below the root directory  *)
(*     given on the command line (<<>> is that root);                      *)
(*   - the filesystem is a function from the existing paths to             *)
(*     [kind, size]; kind is "dir" (is_dir() holds), "file" (is_file()     *)
(*     holds) or "other" (a FIFO, socket, device or dangling symlink:      *)
(*     neither is_dir() nor is_file() holds);                              *)
(*   - an optional value (None or a value) is <<>> or <<value>>;           *)
(*   - TLA+ strings are ASCII, so the output glyphs are transliterated:    *)
(*       "|-- "  is U+251C U+2500 U+2500 SPACE                             *)
(*       "+-- "  is U+2514 U+2500 U+2500 SPACE                             *)
(*       "|   "  is U+2502 and three spaces                                *)
(*       "^["    is the escape character 0x1B                              *)
(*     the three tree glyphs keep their length of 4 characters.           *)
(***************************************************************************)
EXTENDS Integers, Sequences, FiniteSets, TLC

VARIABLES
    fs,        \* the directory tree below the root path: path -> [kind, size]
    rootKind,  \* what the root path itself is: "dir", "file" or "none"
    gitOutcome, \* how the git ls-files subprocess ended ("not_run" before it ran)
    pc,        \* main()'s position
    args,      \* the parsed command line (argparse namespace)
    gitTracked, \* main()'s local git_tracked: <<>> (None) or <<set of paths>>
    lines      \* main()'s local lines: the records build_tree_lines returned

vars == <<fs, rootKind, gitOutcome, pc, args, gitTracked, lines>>

-----------------------------------------------------------------------------
(* Bounds of the model *)

\* entries of a generated directory tree
MaxEntries == 3
\* nesting of a generated directory tree
MaxTreeDepth == 3
\* largest value given to -L/--depth
MaxDepthArg == 2
\* paths git ls-files reports
MaxTracked == 1

-----------------------------------------------------------------------------
(* Characters and names *)

None == <<>>
Some(x) == <<x>>

\* code points of the characters the model uses (str comparison is by code point)
Ord(c) ==
    CASE c = "." -> 46
      [] c = "A" -> 65
      [] c = "B" -> 66
      [] c = "a" -> 97
      [] c = "b" -> 98
      [] c = "c" -> 99
      [] c = "s" -> 115
      [] c = "t" -> 116
      [] c = "u" -> 117
      [] c = "x" -> 120

\* str.lower() on one character
LowerChar(c) ==
    CASE c = "A" -> "a"
      [] c = "B" -> "b"
      [] OTHER -> c

\* x.name.lower()
Lower(name) == [i \in 1..Len(name) |-> LowerChar(name[i])]

\* Python's str < str: lexicographic by code point, a proper prefix is smaller
RECURSIVE StrLess(_, _)
StrLess(s, t) ==
    IF t = <<>> THEN FALSE
    ELSE IF s = <<>> THEN TRUE
    ELSE IF Ord(Head(s)) /= Ord(Head(t)) THEN Ord(Head(s)) < Ord(Head(t))
    ELSE StrLess(Tail(s), Tail(t))

StrLeq(s, t) == s = t \/ StrLess(s, t)

\* the name as the str that is written into a line
RECURSIVE Str(_)
Str(name) == IF name = <<>> THEN "" ELSE Head(name) \o Str(Tail(name))

-----------------------------------------------------------------------------
(* fnmatch.fnmatch(name, pat) on a POSIX system (normcase is the identity): *)
(* '*' matches any run of characters, '?' any one character, every other   *)
(* character itself.  Patterns are drawn without '[' (no character class).  *)

RECURSIVE fnmatch(_, _)
fnmatch(name, pat) ==
    IF pat = <<>> THEN name = <<>>
    ELSE IF Head(pat) = "*"
         THEN \/ fnmatch(name, Tail(pat))
              \/ (name /= <<>> /\ fnmatch(Tail(name), pat))
    ELSE IF name = <<>> THEN FALSE
    ELSE IF Head(pat) = "?" THEN fnmatch(Tail(name), Tail(pat))
    ELSE Head(pat) = Head(name) /\ fnmatch(Tail(name), Tail(pat))

\* any(fnmatch.fnmatch(name, pat) for pat in patterns)
matches_patterns(name, patterns) ==
    \E i \in 1..Len(patterns) : fnmatch(name, patterns[i])

-----------------------------------------------------------------------------
(* human_readable_size.  After the first division the value is a float; a   *)
(* division by 1024 is exact in binary floating point, so the value is the  *)
(* rational num/den, and format(value, ".1f") rounds it correctly, ties to  *)
(* the even digit.                                                          *)

Digit(d) == CASE d = 0 -> "0" [] d = 1 -> "1" [] d = 2 -> "2" [] d = 3 -> "3"
              [] d = 4 -> "4" [] d = 5 -> "5" [] d = 6 -> "6" [] d = 7 -> "7"
              [] d = 8 -> "8" [] d = 9 -> "9"

RECURSIVE IntStr(_)
IntStr(n) == IF n < 10 THEN Digit(n) ELSE IntStr(n \div 10) \o Digit(n % 10)

\* a mutant of FormatOneDecimal: the digits are cut off instead of rounded
FormatOneDecimal_Truncating(num, den) ==
    LET tenths == (10 * num) \div den
    IN  IntStr(tenths \div 10) \o "." \o Digit(tenths % 10)

\* f"{num/den:.1f}"
FormatOneDecimal(num, den) ==
    LET q == (10 * num) \div den
        r == (10 * num) % den
        tenths == IF 2 * r > den \/ (2 * r = den /\ q % 2 = 1) THEN q + 1 ELSE q
    IN  IntStr(tenths \div 10) \o "." \o Digit(tenths % 10)

RECURSIVE SizeLoop(_, _, _)
SizeLoop(num, den, units) ==
    IF units = <<>> THEN FormatOneDecimal(num, den) \o "PB"
    ELSE IF num < 1024 * den THEN FormatOneDecimal(num, den) \o Head(units)
    ELSE SizeLoop(num, den * 1024, Tail(units))

human_readable_size(size) == SizeLoop(size, 1, <<"B", "KB", "MB", "GB", "TB">>)

-----------------------------------------------------------------------------
(* The filesystem as pathlib sees it *)

Exists(F, p) == p \in DOMAIN F
is_dir(F, p) == p = <<>> \/ (Exists(F, p) /\ F[p].kind = "dir")
is_file(F, p) == Exists(F, p) /\ F[p].kind = "file"
st_size(F, p) == F[p].size
NameOf(p) == p[Len(p)]
ParentOf(p) == SubSeq(p, 1, Len(p) - 1)

\* PurePath.is_relative_to: other is p or one of p's ancestors, by whole segments
is_relative_to(p, other) ==
    Len(other) <= Len(p) /\ SubSeq(p, 1, Len(other)) = other

NamesIn(F) == {NameOf(p) : p \in DOMAIN F}

\* the orders in which the operating system may enumerate directory entries:
\* every arrangement of the names in use (one arrangement per run of
\* build_tree_lines, applied in every directory)
EnumOrders(F) ==
    LET S == NamesIn(F)
        k == Cardinality(S)
    IN  {o \in [1..k -> S] : \A i, j \in 1..k : i /= j => o[i] /= o[j]}

\* path.iterdir() under enumeration order ord: the children of path
iterdir(F, ord, path) ==
    LET present(n) == Exists(F, Append(path, n))
        names == SelectSeq(ord, present)
    IN  [i \in 1..Len(names) |-> Append(path, names[i])]

-----------------------------------------------------------------------------
(* The two filters *)

\* a mutant of NotExcluded: only the first pattern of the list is applied
NotExcluded_FirstPatternOnly(items, exclude) ==
    LET keep(item) == exclude = <<>> \/ ~fnmatch(NameOf(item), exclude[1])
    IN  SelectSeq(items, keep)

\* (item for item in path.iterdir() if not matches_patterns(item.name, exclude))
NotExcluded(items, exclude) ==
    LET keep(item) == ~matches_patterns(NameOf(item), exclude)
    IN  SelectSeq(items, keep)

\* a mutant of IsTracked: the "if p.is_file()" condition is left out
IsTracked_AnyPath(F, item, tracked) ==
    \/ item \in tracked
    \/ \E p \in tracked : is_relative_to(p, item)

\* item in git_tracked or any(p.is_relative_to(item) for p in git_tracked if p.is_file())
IsTracked(F, item, tracked) ==
    \/ item \in tracked
    \/ \E p \in tracked : is_file(F, p) /\ is_relative_to(p, item)

\* if git_tracked is not None: items = [item for item in items if ...]
TrackedOnly(F, items, git_tracked) ==
    IF git_tracked = None THEN items
    ELSE LET keep(item) == IsTracked(F, item, git_tracked[1])
         IN  SelectSeq(items, keep)

-----------------------------------------------------------------------------
(* sorted(..., key=lambda x: (x.is_file(), x.name.lower())) *)

\* a mutant of KeyLess: the names are compared without .lower()
KeyLess_CaseSensitive(F, x, y) ==
    LET fx == is_file(F, x)
        fy == is_file(F, y)
    IN  IF fx /= fy THEN fy
        ELSE StrLess(NameOf(x), NameOf(y))

\* key(x) < key(y) on the tuples (bool, str): False < True, then the strings
KeyLess(F, x, y) ==
    LET fx == is_file(F, x)
        fy == is_file(F, y)
    IN  IF fx /= fy THEN fy
        ELSE StrLess(Lower(NameOf(x)), Lower(NameOf(y)))

\* x goes before the first element whose key is greater: equal keys keep the
\* order they came in (sorted() is stable)
RECURSIVE InsertSorted(_, _, _)
InsertSorted(F, x, s) ==
    IF s = <<>> THEN <<x>>
    ELSE IF KeyLess(F, x, Head(s)) THEN <<x>> \o s
    ELSE <<Head(s)>> \o InsertSorted(F, x, Tail(s))

RECURSIVE sorted(_, _)
sorted(F, s) ==
    IF s = <<>> THEN <<>>
    ELSE InsertSorted(F, s[Len(s)], sorted(F, SubSeq(s, 1, Len(s) - 1)))

-----------------------------------------------------------------------------------------------------------------------------------------------------
(* collapse_single_dirs *)

\* line 54: if len(dirs) == 1 and not files
SingleDir(dirs, files) == Len(dirs) = 1 /\ files = <<>>

RECURSIVE collapse_single_dirs(_, _, _, _, _)
collapse_single_dirs(F, ord, path, git_tracked, exclude) ==
    LET items == TrackedOnly(F, NotExcluded(iterdir(F, ord, path), exclude), git_tracked)
        isd(x) == is_dir(F, x)
        isf(x) == is_file(F, x)
        dirs == SelectSeq(items, isd)
        files == SelectSeq(items, isf)
    IN  IF SingleDir(dirs, files)
        THEN collapse_single_dirs(F, ord, dirs[1], git_tracked, exclude)
        ELSE path

-----------------------------------------------------------------------------
(* build_tree_lines.  Each returned line is a record: text is the str the   *)
(* code appends; the other fields record what the text was built from       *)
(* (indent, connector, name, size), the entry it is the line of (path), the *)
(* call that appended it (start: its startpath argument, listed: the        *)
(* directory it listed).                                                    *)

\* colorama: Fore.BLUE + Style.BRIGHT, Fore.RESET, Style.RESET_ALL
COLOR_DIR == "^[[34m" \o "^[[1m"
COLOR_FILE == "^[[39m"
RESET_ALL == "^[[0m"

\* a mutant of DepthGated: > in place of >=
DepthGated_OffByOne(depth, current_level) == depth /= None /\ current_level > depth[1]

\* line 87: if depth is not None and current_level >= depth: continue
DepthGated(depth, current_level) == depth /= None /\ current_level >= depth[1]

\* line 90
Connector(i, n) == IF i = n THEN "+-- " ELSE "|-- "

\* a mutant of Extension: the two continuations are swapped
Extension_Swapped(i, n) == IF i = n THEN "|   " ELSE "    "

\* line 96
Extension(i, n) == IF i = n THEN "    " ELSE "|   "

\* line 91
RenderName(F, item, color) ==
    IF color /\ is_dir(F, item)
    THEN COLOR_DIR \o Str(NameOf(item)) \o RESET_ALL
    ELSE COLOR_FILE \o Str(NameOf(item)) \o RESET_ALL

\* line 92
SizeSuffix(F, item, show_sizes) ==
    IF show_sizes /\ is_file(F, item)
    THEN " (" \o human_readable_size(st_size(F, item)) \o ")"
    ELSE ""

RECURSIVE build_tree_lines(_, _, _, _, _, _, _, _, _, _, _)
build_tree_lines(F, ord, startpath, indent, exclude, git_tracked, color, show_sizes, compact, depth, current_level) ==
    LET start == IF compact
                 THEN collapse_single_dirs(F, ord, startpath, git_tracked, exclude)
                 ELSE startpath
        items == TrackedOnly(F, sorted(F, NotExcluded(iterdir(F, ord, start), exclude)),
                             git_tracked)
        n == Len(items)
        RECURSIVE loop(_)
        loop(i) ==
            IF i > n THEN <<>>
            ELSE IF DepthGated(depth, current_level) THEN loop(i + 1)
            ELSE
              LET item == items[i]
                  connector == Connector(i, n)
                  name == RenderName(F, item, color)
                  size == SizeSuffix(F, item, show_sizes)
                  line == [text |-> indent \o connector \o name \o size,
                           indent |-> indent, connector |-> connector,
                           name |-> name, size |-> size,
                           path |-> item, start |-> startpath, listed |-> start]
                  below == IF is_dir(F, item)
                           THEN build_tree_lines(F, ord, item, indent \o Extension(i, n),
                                    exclude, git_tracked, color, show_sizes, compact,
                                    depth, current_level + 1)
                           ELSE <<>>
              IN  <<line>> \o below \o loop(i + 1)
    IN  loop(1)

-----
(* The directory trees the program is run on *)

Kinds == {"dir", "file", "other"}

\* names of generated entries: "B" and "b" differ only in case, and "B" sorts
\* before "ab" by code point but after it case-insensitively
GenNames == {<<"a", "b">>, <<"B">>, <<"b">>}

\* st_size of a generated regular file, by name
GenSize(name) == IF name = <<"b">> THEN 1280 ELSE IF name = <<"B">> THEN 0 ELSE 2000

EmptyTree == [p \in {} |-> [kind |-> "dir", size |-> 0]]

Entry(kind, name) == [kind |-> kind, size |-> IF kind = "file" THEN GenSize(name) ELSE 0]

\* the places where one more entry can be created in tree F
FreeSlots(F) ==
    {Append(d, n) : d \in {<<>>} \cup {q \in DOMAIN F : F[q].kind = "dir"}, n \in GenNames}
        \ DOMAIN F

RECURSIVE TreesUpTo(_)
TreesUpTo(n) ==
    IF n = 0 THEN {EmptyTree}
    ELSE LET smaller == TreesUpTo(n - 1)
         IN  smaller \cup
             UNION {{F @@ (p :> Entry(k, NameOf(p))) :
                        p \in {q \in FreeSlots(F) : Len(q) <= MaxTreeDepth}, k \in Kinds} :
                    F \in smaller}

\* the tree of the end-to-end scenario: a.txt (10 bytes), b.txt (2000 bytes),
\* sub/ holding c.txt (5 bytes)
N_a_txt == <<"a", ".", "t", "x", "t">>
N_b_txt == <<"b", ".", "t", "x", "t">>
N_c_txt == <<"c", ".", "t", "x", "t">>
N_sub == <<"s", "u", "b">>

ScenarioTree ==
    (<<N_a_txt>> :> [kind |-> "file", size |-> 10]) @@
    (<<N_b_txt>> :> [kind |-> "file", size |-> 2000]) @@
    (<<N_sub>> :> [kind |-> "dir", size |-> 0]) @@
    (<<N_sub, N_c_txt>> :> [kind |-> "file", size |-> 5])

Trees == TreesUpTo(MaxEntries) \cup {ScenarioTree}

-----------------------------------------------------------------------------
(* The command lines *)

\* the lists given to -e/--exclude
ExcludeChoices ==
    { <<>>, << <<"b">> >>, << <<"a", "*">> >>, << <<"?">> >>, << <<"*", "b">>, <<"B">> >> }

DepthChoices == {None} \cup {Some(d) : d \in 0..MaxDepthArg}

ArgSpace ==
    [exclude : ExcludeChoices, git : BOOLEAN, no_color : BOOLEAN, no_size : BOOLEAN,
     compact : BOOLEAN, depth : DepthChoices]

\* the namespace before parse_args has run (argparse's defaults)
DefaultArgs ==
    [exclude |-> <<>>, git |-> FALSE, no_color |-> FALSE, no_size |-> FALSE,
     compact |-> FALSE, depth |-> None]

-----------------------------------------------------------------------------
(* What git ls-files can report for tree F: paths of entries that are not   *)
(* plain directories plus gitlinks (directories), and paths deleted from    *)
(* the working tree.  No reported path lies below another.                  *)

Dirs(F) == {<<>>} \cup {q \in DOMAIN F : F[q].kind = "dir"}

DeletedPaths(F) ==
    {Append(d, n) : d \in Dirs(F), n \in {<<"b">>}} \ DOMAIN F

TrackedChoices(F) ==
    {T \in SUBSET (DOMAIN F \cup DeletedPaths(F)) :
        /\ Cardinality(T) <= MaxTracked
        /\ \A p, q \in T : p /= q => ~is_relative_to(p, q)}

-----------------------------------------------------------------------------
(* main *)

Init ==
    /\ fs \in Trees
    /\ rootKind \in (IF fs = EmptyTree THEN {"dir", "file", "none"} ELSE {"dir"})
    /\ gitOutcome = "not_run"
    /\ pc = "parse_args"
    /\ args = DefaultArgs
    /\ gitTracked = None
    /\ lines = <<>>

\* line 110: args = parser.parse_args()
ParseArgs ==
    /\ pc = "parse_args"
    /\ args' \in ArgSpace
    /\ pc' = "check_path"
    /\ UNCHANGED <<fs, rootKind, gitOutcome, gitTracked, lines>>

\* lines 112-115: a root path that does not exist is reported, and main returns
CheckPath ==
    /\ pc = "check_path"
    /\ pc' = IF rootKind = "none" THEN "no_such_path" ELSE "git"
    /\ UNCHANGED <<fs, rootKind, gitOutcome, args, gitTracked, lines>>

\* line 117 without -G: git_tracked = None
GitSkipped ==
    /\ pc = "git" /\ ~args.git
    /\ gitTracked' = None
    /\ pc' = "build"
    /\ UNCHANGED <<fs, rootKind, gitOutcome, args, lines>>

\* lines 32-39: git ls-files exits 0; each reported line becomes root / line
GitOk ==
    /\ pc = "git" /\ args.git /\ rootKind = "dir"
    /\ \E T \in TrackedChoices(fs) : gitTracked' = Some(T)
    /\ gitOutcome' = "ok"
    /\ pc' = "build"
    /\ UNCHANGED <<fs, rootKind, args, lines>>

\* lines 40-41: git exits non-zero (check=True raises CalledProcessError):
\* an error of git's own, or the root is not inside a repository (exit 128)
GitNonZero ==
    /\ pc = "git" /\ args.git
    /\ gitOutcome' \in {"nonzero_exit", "not_a_repository"}
    /\ gitTracked' = Some({})
    /\ pc' = "build"
    /\ UNCHANGED <<fs, rootKind, args, lines>>

\* lines 31-41: no git executable: subprocess.run raises FileNotFoundError,
\* which is not a CalledProcessError; it leaves get_git_tracked_files and main
GitAbsent ==
    /\ pc = "git" /\ args.git
    /\ gitOutcome' = "tool_absent"
    /\ pc' = "crashed"
    /\ UNCHANGED <<fs, rootKind, args, gitTracked, lines>>

\* lines 119-127: lines = build_tree_lines(root_path, ...), whatever order the
\* operating system enumerates directories in; iterdir() on a root that is
\* not a directory raises NotADirectoryError
Build ==
    /\ pc = "build"
    /\ IF rootKind = "dir"
       THEN /\ \E ord \in EnumOrders(fs) :
                 lines' = build_tree_lines(fs, ord, <<>>, "", args.exclude, gitTracked,
                              ~args.no_color, ~args.no_size, args.compact, args.depth, 0)
            /\ pc' = "output"
       ELSE /\ lines' = lines
            /\ pc' = "crashed"
    /\ UNCHANGED <<fs, rootKind, gitOutcome, args, gitTracked>>

\* lines 129-134: the joined lines are printed (or copied with --clipboard)
Output ==
    /\ pc = "output"
    /\ pc' = "done"
    /\ UNCHANGED <<fs, rootKind, gitOutcome, args, gitTracked, lines>>

Next ==
    \/ ParseArgs
    \/ CheckPath
    \/ GitSkipped
    \/ GitOk
    \/ GitNonZero
    \/ GitAbsent
    \/ Build
    \/ Output

Spec == Init /\ [][Next]_vars

-----------------------------------------------------------------------------
(* Vocabulary of the properties *)

\* build_tree_lines has returned
Built == pc \in {"output", "done"}

LineIdx == 1..Len(lines)
Emitted == {lines[i].path : i \in LineIdx}
Texts == [i \in LineIdx |-> lines[i].text]

IsProperPrefix(a, b) == Len(a) < Len(b) /\ SubSeq(b, 1, Len(a)) = a
ChildrenOf(d) == {p \in DOMAIN fs : ParentOf(p) = d}
ExcludedName(n) == matches_patterns(n, args.exclude)

\* the number of ancestors of line i's entry that have a line of their own
RenderedAncestors(i) ==
    Cardinality({j \in LineIdx : IsProperPrefix(lines[j].path, lines[i].path)})

\* lines i and j are lines of two children of one directory, j the next after i
ConsecutiveSiblings(i, j) ==
    /\ i < j
    /\ ParentOf(lines[i].path) = ParentOf(lines[j].path)
    /\ ~\E k \in LineIdx :
          i < k /\ k < j /\ ParentOf(lines[k].path) = ParentOf(lines[i].path)

\* some fixed enumeration order, for the operators that take one
AnOrder == CHOOSE o \in EnumOrders(fs) : TRUE

\* the directory a call on startpath lists
ListedFor(startpath) ==
    IF args.compact
    THEN collapse_single_dirs(fs, AnOrder, startpath, gitTracked, args.exclude)
    ELSE startpath

\* the listings that are rendered: <<directory listed, its nesting level>>
Listings ==
    {<<ListedFor(<<>>), 0>>} \cup
    {<<ListedFor(lines[i].path), RenderedAncestors(i) + 1>> :
        i \in {j \in LineIdx : fs[lines[j].path].kind = "dir"}}

GatedAt(level) == args.depth /= None /\ level >= args.depth[1]

-----------------------------------------------------------------------------
(* C1 *)

\* C1: no returned line is the line of an entry whose name matches an exclusion
\* pattern, and no entry lying beneath an excluded directory has a line.
C1_NoExcludedLine ==
    Built =>
        \A i \in LineIdx : \A k \in 1..Len(lines[i].path) :
            ~ExcludedName(lines[i].path[k])

\* a tree with an excluded directory that holds an entry which is not excluded
\* itself, rendered with some line left
C1_Witness ==
    /\ Built
    /\ lines /= <<>>
    /\ \E p, q \in DOMAIN fs :
          /\ fs[p].kind = "dir" /\ ExcludedName(NameOf(p))
          /\ ParentOf(q) = p /\ ~ExcludedName(NameOf(q))

-----------------------------------------------------------------------------
(* C2 *)

KindOf(i) == fs[lines[i].path].kind
LowerName(i) == Lower(NameOf(lines[i].path))

\* C2 as stated: of two sibling entries emitted consecutively, either the first
\* is a directory and the second a file, or both are the same kind and the
\* first's lowercased name sorts <= the second's.
C2_OrderingAsClaimed ==
    Built =>
        \A i, j \in LineIdx : ConsecutiveSiblings(i, j) =>
            \/ KindOf(i) = "dir" /\ KindOf(j) = "file"
            \/ KindOf(i) = KindOf(j) /\ StrLeq(LowerName(i), LowerName(j))

\* C2 amended: of two sibling entries emitted consecutively, either the first is
\* not a regular file and the second is one, or both are regular files or
\* neither is, and the first's lowercased name sorts <= the second's.
C2_Ordering ==
    Built =>
        \A i, j \in LineIdx : ConsecutiveSiblings(i, j) =>
            \/ KindOf(i) /= "file" /\ KindOf(j) = "file"
            \/ /\ (KindOf(i) = "file") = (KindOf(j) = "file")
               /\ StrLeq(LowerName(i), LowerName(j))

\* three siblings are emitted: an entry that is neither directory nor regular
\* file, then a directory, then a regular file whose name sorts before both
C2_Witness ==
    /\ Built
    /\ \E i, j, k \in LineIdx :
          /\ ConsecutiveSiblings(i, j) /\ ConsecutiveSiblings(j, k)
          /\ KindOf(i) = "other" /\ KindOf(j) = "dir" /\ KindOf(k) = "file"
          /\ StrLess(LowerName(k), LowerName(i))

-----------------------------------------------------------------------------
(* C3 *)

\* C3: with maximum depth N, no line has N or more rendered ancestors, so depth
\* 0 yields no line and depth 1 only direct children of the display root, and
\* nothing is rendered beneath an entry that has no line (without compaction
\* every ancestor of a rendered entry is rendered).
C3_DepthInvariant ==
    (Built /\ args.depth /= None) =>
        /\ \A i \in LineIdx : RenderedAncestors(i) < args.depth[1]
        /\ args.depth[1] = 0 => lines = <<>>
        /\ args.depth[1] = 1 =>
              \A i \in LineIdx : ParentOf(lines[i].path) = ListedFor(<<>>)
        /\ ~args.compact =>
              \A i \in LineIdx : \A k \in 1..(Len(lines[i].path) - 1) :
                  SubSeq(lines[i].path, 1, k) \in Emitted

\* depth 1 on a tree with an unexcluded entry two levels down whose parent is
\* rendered: the entry is cut off
C3_Witness ==
    /\ Built
    /\ args.depth = Some(1) /\ ~args.compact /\ gitTracked = None
    /\ \E p \in DOMAIN fs :
          /\ Len(p) = 2 /\ ParentOf(p) \in Emitted
          /\ ~ExcludedName(NameOf(p)) /\ p \notin Emitted

-----------------------------------------------------------------------------
(* C4 *)

\* the directory the claim says a call on d lists: go down while the surviving
\* contents are exactly one item and that item is a directory
RECURSIVE C4_ClaimedTarget(_)
C4_ClaimedTarget(d) ==
    LET survivors == TrackedOnly(fs, NotExcluded(iterdir(fs, AnOrder, d), args.exclude),
                                 gitTracked)
    IN  IF Len(survivors) = 1 /\ is_dir(fs, survivors[1])
        THEN C4_ClaimedTarget(survivors[1])
        ELSE d

\* C4 as stated: with compaction every call lists the first directory down the
\* chain from its start directory that has zero directories, more than one
\* surviving item, or any file; without compaction each call lists its start
\* directory and every ancestor of a rendered entry has its own line.
C4_CompactionAsClaimed ==
    Built =>
        /\ args.compact =>
              \A i \in LineIdx : lines[i].listed = C4_ClaimedTarget(lines[i].start)
        /\ ~args.compact =>
              \A i \in LineIdx :
                  /\ lines[i].listed = lines[i].start
                  /\ \A k \in 1..(Len(lines[i].path) - 1) :
                        SubSeq(lines[i].path, 1, k) \in Emitted

-----------------------------------------------------------------------------
(* C5 *)

\* the claim's condition: a member of T, or a directory above a member of T
C5_ConditionAsClaimed(c, T) ==
    \/ c \in T
    \/ fs[c].kind = "dir" /\ \E p \in T : IsProperPrefix(c, p)

\* the amended condition: a member of T, or a directory above a member of T
\* that is a regular file on disk
C5_Condition(c, T) ==
    \/ c \in T
    \/ /\ fs[c].kind = "dir"
       /\ \E p \in T : p \in DOMAIN fs /\ fs[p].kind = "file" /\ IsProperPrefix(c, p)

\* C5 as stated: every emitted entry is in T or is a directory above a member
\* of T; every child of a rendered listing that satisfies this and is neither
\* excluded nor depth-gated is emitted; with T empty there is no line.
C5_TrackingAsClaimed ==
    (Built /\ gitTracked /= None) =>
        LET T == gitTracked[1] IN
        /\ \A c \in Emitted : C5_ConditionAsClaimed(c, T)
        /\ \A l \in Listings : \A c \in ChildrenOf(l[1]) :
              (C5_ConditionAsClaimed(c, T) /\ ~ExcludedName(NameOf(c)) /\ ~GatedAt(l[2]))
                  => c \in Emitted
        /\ T = {} => lines = <<>>

\* C5 amended: the same with "a directory that is an ancestor of at least one
\* member of T that is a regular file on disk" as the directory case.
C5_Tracking ==
    (Built /\ gitTracked /= None) =>
        LET T == gitTracked[1] IN
        /\ \A c \in Emitted : C5_Condition(c, T)
        /\ \A l \in Listings : \A c \in ChildrenOf(l[1]) :
              (C5_Condition(c, T) /\ ~ExcludedName(NameOf(c)) /\ ~GatedAt(l[2]))
                  => c \in Emitted
        /\ T = {} => lines = <<>>

\* a tracked regular file two levels down is emitted below its directory while
\* an untracked entry of the tree is not
C5_Witness ==
    /\ Built /\ gitTracked /= None
    /\ \E p \in gitTracked[1] :
          /\ Len(p) = 2 /\ p \in Emitted /\ ParentOf(p) \in Emitted
          /\ \E q \in DOMAIN fs : ~ExcludedName(NameOf(q)) /\ Len(q) = 1 /\ q \notin Emitted

-----------------------------------------------------------------------------
(* C6 *)

\* C6 as stated: the returned lines are the same for every order in which the
\* filesystem enumerates directory entries.
C6_OrderIndependent ==
    Built =>
        \A o \in EnumOrders(fs) :
            lines = build_tree_lines(fs, o, <<>>, "", args.exclude, gitTracked,
                        ~args.no_color, ~args.no_size, args.compact, args.depth, 0)

-----------------------------------------------------------------------------
(* C7 *)

C7_Scenario ==
    /\ Built
    /\ fs = ScenarioTree
    /\ args = [exclude |-> <<>>, git |-> FALSE, no_color |-> TRUE, no_size |-> FALSE,
               compact |-> FALSE, depth |-> None]

\* a line with its escape sequences left out
C7_Plain(i) ==
    lines[i].indent \o lines[i].connector \o Str(NameOf(lines[i].path)) \o lines[i].size

\* C7 as stated: in the scenario the returned lines are exactly the four
\* lines, with nothing but indentation, connector, name and size suffix.
C7_ScenarioAsClaimed ==
    C7_Scenario =>
        Texts = <<"|-- sub", "|   +-- c.txt (5.0B)", "|-- a.txt (10.0B)", "+-- b.txt (2.0KB)">>

\* C7 amended: in the scenario four lines are returned in that order, each
\* being indentation + connector + Fore.RESET + name + Style.RESET_ALL + size
\* suffix; without the two escape sequences they are the four lines stated.
C7_ScenarioLines ==
    C7_Scenario =>
        /\ Texts = <<"|-- ^[[39msub^[[0m", "|   +-- ^[[39mc.txt^[[0m (5.0B)",
                     "|-- ^[[39ma.txt^[[0m (10.0B)", "+-- ^[[39mb.txt^[[0m (2.0KB)">>
        /\ [i \in LineIdx |-> C7_Plain(i)] =
              <<"|-- sub", "|   +-- c.txt (5.0B)", "|-- a.txt (10.0B)", "+-- b.txt (2.0KB)">>

C7_Witness == C7_Scenario /\ Len(lines) = 4

-----------------------------------------------------------------------------
(* C8 *)

\* C8 as stated: however the git query fails, get_git_tracked_files returns the
\* empty set and raises nothing, and main goes on to render an empty tree.
C8_FailureGivesEmptySet ==
    gitOutcome \in {"nonzero_exit", "not_a_repository", "tool_absent"} =>
        /\ gitTracked = Some({})
        /\ rootKind = "dir" => pc /= "crashed"
        /\ Built => lines = <<>>

-----------------------------------------------------------------------------
(* C9 *)

\* the children of d that survive the exclusion and tracking filters
C9_Surviving(d) ==
    {c \in ChildrenOf(d) :
        /\ ~ExcludedName(NameOf(c))
        /\ gitTracked /= None => C5_Condition(c, gitTracked[1])}

\* the lines of the rendered ancestors of line i's entry
C9_Above(i) == {j \in LineIdx : IsProperPrefix(lines[j].path, lines[i].path)}

\* C9: a line's connector is the last-item glyph exactly when its entry is the
\* last surviving item of its directory's listing; the lines below a directory
\* line follow it at once, all together, indented by that line's indent plus
\* four spaces when it is last and plus the bar glyph otherwise.
C9_ConnectorAndIndent ==
    Built =>
        \A i \in LineIdx :
            /\ lines[i].text = lines[i].indent \o lines[i].connector
                                   \o lines[i].name \o lines[i].size
            /\ C9_Surviving(ParentOf(lines[i].path)) \subseteq Emitted
            /\ lines[i].connector =
                  (IF \E j \in LineIdx : ConsecutiveSiblings(i, j) THEN "|-- " ELSE "+-- ")
            /\ IF C9_Above(i) = {}
               THEN lines[i].indent = ""
               ELSE LET j == CHOOSE a \in C9_Above(i) :
                                 \A b \in C9_Above(i) : Len(lines[b].path) <= Len(lines[a].path)
                    IN  /\ j < i
                        /\ \A k \in (j + 1)..i : j \in C9_Above(k)
                        /\ lines[i].indent = lines[j].indent \o
                              (IF lines[j].connector = "+-- " THEN "    " ELSE "|   ")

\* a directory that is not the last item, its child, then the last item
C9_Witness ==
    /\ Built /\ Len(lines) = 3
    /\ lines[1].connector = "|-- " /\ lines[2].indent = "|   "
    /\ lines[3].connector = "+-- " /\ lines[3].indent = ""

-----------------------------------------------------------------------------
(* C10 *)

\* the entries whose own name and whose ancestors' names match no pattern
C10_Unexcluded ==
    {p \in DOMAIN fs : \A k \in 1..Len(p) : ~ExcludedName(p[k])}

C10_LinesOf(p) == Cardinality({i \in LineIdx : lines[i].path = p})

\* C10 as stated: with no depth limit and no tracked set, without compaction
\* there is exactly one line for every unexcluded entry and no other line; with
\* compaction only directories are elided, so every unexcluded entry that is
\* not a directory has exactly one line.
C10_CompletenessAsClaimed ==
    (Built /\ args.depth = None /\ gitTracked = None) =>
        /\ Emitted \subseteq C10_Unexcluded
        /\ \A p \in Emitted : C10_LinesOf(p) = 1
        /\ ~args.compact => Len(lines) = Cardinality(C10_Unexcluded)
        /\ args.compact =>
              \A p \in C10_Unexcluded : fs[p].kind /= "dir" => C10_LinesOf(p) = 1

====
